---- MODULE Spec2Model ----
(***************************************************************************)
(* GreenCart Logistics: the simulation engine (SimulationEngine) and the   *)
(* POST /run handler that drives it.                                       *)
(*                                                                         *)
(* Number representation.  The JavaScript code computes in doubles; the    *)
(* model computes the same quantities exactly in fixed point:              *)
(*   - money (valueRs aside) and distanceKm are carried in units of        *)
(*     1/BONUS_RATE_DIV (tenths), so that valueRs * 0.1 and the fuel cost  *)
(*     of a route of a fractional length are integers;                     *)
(*   - an Assignment's totalHours is carried in minutes (hours * 60);      *)
(*   - a score is carried in units of 1/30 (score * 30), which makes       *)
(*     totalHours * 2 an integer;                                          *)
(*   - efficiencyScore is carried in hundredths.                           *)
(* A clock time "HH:MM" is a sequence of one-character strings.            *)
(***************************************************************************)
EXTENDS Integers, Sequences, FiniteSets, TLC

(***************************************************************************)
(* Bounds of the model.                                                    *)
(***************************************************************************)
NumDrivers == 2
MaxOrders == 2
MaxHalfKm == 30
MaxBaseTimeMin == 60

(***************************************************************************)
(* Constants of the engine (constructor of SimulationEngine) and of the    *)
(* models.                                                                 *)
(***************************************************************************)
LATE_DELIVERY_PENALTY == 50
BONUS_RATE_DIV == 10
BASE_FUEL_COST == 5
HIGH_TRAFFIC_SURCHARGE == 2
FATIGUE_SPEED_REDUCTION_PCT == 30
LATE_BUFFER_MIN == 10
FATIGUE_HOURS == 8

TrafficLevels == {"Low", "Medium", "High"}

(***************************************************************************)
(* Arithmetic helpers: Math.ceil of a quotient, Math.round of a quotient   *)
(* (round half up, as Math.round does).                                    *)
(***************************************************************************)
CeilDiv(n, d) == -((-n) \div d)

RoundDiv(n, d) == (2 * n + d) \div (2 * d)

Max0(x) == IF x > 0 THEN x ELSE 0

(***************************************************************************)
(* Clock times.                                                            *)
(***************************************************************************)
Digits == <<"0", "1", "2", "3", "4", "5", "6", "7", "8", "9">>

DigitValue(c) == CHOOSE d \in 0..9 : Digits[d + 1] = c

\* Number(str) of a string of decimal digits (Number("") is 0)
RECURSIVE ToNumber(_)
ToNumber(s) ==
  IF s = <<>> THEN 0
  ELSE 10 * ToNumber(SubSeq(s, 1, Len(s) - 1)) + DigitValue(s[Len(s)])

\* str.split(':') of a string with one colon: the part before, the part after
SplitColon(s) ==
  LET p == CHOOSE i \in 1..Len(s) : s[i] = ":"
  IN  <<SubSeq(s, 1, p - 1), SubSeq(s, p + 1, Len(s))>>

timeToMinutes(timeStr) ==
  LET parts == SplitColon(timeStr)
      hours == ToNumber(parts[1])
      minutes == ToNumber(parts[2])
  IN  hours * 60 + minutes

RECURSIVE toString(_)
\* n.toString() of an integer n >= 0: its decimal digits
toString(n) ==
  IF n < 10 THEN <<Digits[n + 1]>>
  ELSE toString(n \div 10) \o <<Digits[(n % 10) + 1]>>

RECURSIVE padStart(_, _, _)
\* s.padStart(targetLength, c): c in front until the length is reached
padStart(s, targetLength, c) ==
  IF Len(s) >= targetLength THEN s
  ELSE padStart(<<c>> \o s, targetLength, c)

\* a slip: the parts are not padded
minutesToTime_Unpadded(minutes) ==
  LET hours == minutes \div 60
      mins == minutes % 60
  IN  toString(hours) \o <<":">> \o toString(mins)

minutesToTime(minutes) ==
  LET hours == minutes \div 60
      mins == minutes % 60
  IN  padStart(toString(hours), 2, "0") \o <<":">> \o padStart(toString(mins), 2, "0")

getDeliveryTimeInMinutes(order) ==
  LET parts == SplitColon(order.deliveryTime)
  IN  ToNumber(parts[1]) * 60 + ToNumber(parts[2])

(***************************************************************************)
(* Route and Driver model methods.                                         *)
(***************************************************************************)
\* trafficMultiplier, times 10
trafficMultiplier(level) ==
  CASE level = "Low" -> 10
    [] level = "Medium" -> 12
    [] level = "High" -> 15

getExpectedTime(route) ==
  CeilDiv(route.baseTimeMin * trafficMultiplier(route.trafficLevel), 10)

\* Route.calculateFuelCost (the model method; the engine has its own)
routeCalculateFuelCost(route) ==
  LET baseCost == route.distanceKm * 5
      surcharge == IF route.trafficLevel = "High" THEN route.distanceKm * 2 ELSE 0
  IN  baseCost + surcharge

isFatigued(driver) ==
  LET yesterdayHours == driver.pastWeekHours[Len(driver.pastWeekHours)]
  IN  yesterdayHours > FATIGUE_HOURS

(***************************************************************************)
(* SimulationEngine: timing, lateness, fuel cost, score.                   *)
(***************************************************************************)
\* a slip: one ceiling of the whole product
calculateOrderTime_SingleCeil(route, fatigued) ==
  IF fatigued
    THEN CeilDiv(route.baseTimeMin * trafficMultiplier(route.trafficLevel)
                   * (100 + FATIGUE_SPEED_REDUCTION_PCT), 1000)
    ELSE CeilDiv(route.baseTimeMin * trafficMultiplier(route.trafficLevel), 10)

calculateOrderTime(route, fatigued) ==
  LET baseTime == getExpectedTime(route)
  IN  IF fatigued
        THEN CeilDiv(baseTime * (100 + FATIGUE_SPEED_REDUCTION_PCT), 100)
        ELSE baseTime

\* a slip: >= for >
isOrderLate_AtBuffer(order, route, fatigued) ==
  LET expectedTime == calculateOrderTime(route, fatigued)
      allowedTime == route.baseTimeMin + LATE_BUFFER_MIN
  IN  expectedTime >= allowedTime

isOrderLate(order, route, fatigued) ==
  LET expectedTime == calculateOrderTime(route, fatigued)
      allowedTime == route.baseTimeMin + LATE_BUFFER_MIN
  IN  expectedTime > allowedTime

\* a slip: the surcharge on every tier but Low
calculateFuelCost_SurchargeMedium(route) ==
  LET cost == route.distanceKm * BASE_FUEL_COST
  IN  IF route.trafficLevel # "Low"
        THEN cost + route.distanceKm * HIGH_TRAFFIC_SURCHARGE
        ELSE cost

calculateFuelCost(route) ==
  LET cost == route.distanceKm * BASE_FUEL_COST
  IN  IF route.trafficLevel = "High"
        THEN cost + route.distanceKm * HIGH_TRAFFIC_SURCHARGE
        ELSE cost

\* a slip: the hours so far weigh three times, not twice
calculateAssignmentScore_TripleHours(assignment, order, route) ==
  LET s0 == 100 * 30
      s1 == IF assignment.isFatigued THEN s0 - 30 * 30 ELSE s0
      s2 == s1 - (3 * assignment.totalHours) \div 2
      s3 == IF order.valueRs > 1000 THEN s2 + 20 * 30 ELSE s2
  IN  IF route.trafficLevel = "High" THEN s3 - 10 * 30
      ELSE IF route.trafficLevel = "Medium" THEN s3 - 5 * 30
      ELSE s3

\* a slip: >= for >, an order of exactly 1000 takes the high-value bonus
calculateAssignmentScore_ValueAtLeast(assignment, order, route) ==
  LET s0 == 100 * 30
      s1 == IF assignment.isFatigued THEN s0 - 30 * 30 ELSE s0
      s2 == s1 - assignment.totalHours
      s3 == IF order.valueRs >= 1000 THEN s2 + 20 * 30 ELSE s2
  IN  IF route.trafficLevel = "High" THEN s3 - 10 * 30
      ELSE IF route.trafficLevel = "Medium" THEN s3 - 5 * 30
      ELSE s3

\* the score, times 30 (assignment.totalHours is in minutes)
calculateAssignmentScore(assignment, order, route) ==
  LET s0 == 100 * 30
      s1 == IF assignment.isFatigued THEN s0 - 30 * 30 ELSE s0
      s2 == s1 - assignment.totalHours
      s3 == IF order.valueRs > 1000 THEN s2 + 20 * 30 ELSE s2
  IN  IF route.trafficLevel = "High" THEN s3 - 10 * 30
      ELSE IF route.trafficLevel = "Medium" THEN s3 - 5 * 30
      ELSE s3

(***************************************************************************)
(* Finding and sorting.  Array.prototype.sort and the sort of a query are  *)
(* stable: elements the comparison does not separate keep their order.     *)
(***************************************************************************)
RECURSIVE SelectSeqIdx(_, _)
\* the elements of s whose index is in the set keep, in order
SelectSeqIdx(s, keep) ==
  IF s = <<>> THEN <<>>
  ELSE LET n == Len(s)
           front == SelectSeqIdx(SubSeq(s, 1, n - 1), keep)
       IN  IF n \in keep THEN Append(front, s[n]) ELSE front

Take(s, n) == SubSeq(s, 1, IF n < Len(s) THEN n ELSE Len(s))

\* a slip: the orders of low value first
orderBefore_LowValueFirst(a, b) ==
  IF a.valueRs # b.valueRs
    THEN a.valueRs - b.valueRs < 0
    ELSE getDeliveryTimeInMinutes(a) - getDeliveryTimeInMinutes(b) < 0

\* the comparator of optimizeOrderAssignment's sort is negative
orderBefore(a, b) ==
  IF a.valueRs # b.valueRs
    THEN b.valueRs - a.valueRs < 0
    ELSE getDeliveryTimeInMinutes(a) - getDeliveryTimeInMinutes(b) < 0

\* .sort({ fatigueLevel: 1, currentDayHours: 1 })
driverBefore(a, b) ==
  \/ a.fatigueLevel < b.fatigueLevel
  \/ (a.fatigueLevel = b.fatigueLevel /\ a.currentDayHours < b.currentDayHours)

\* the drivers in ascending fatigueLevel, then currentDayHours; drivers equal
\* in both keys come in the order of the collection
sortDrivers(s) ==
  LET n == Len(s)
      rank(i) == 1 + Cardinality({j \in 1..n :
                        \/ driverBefore(s[j], s[i])
                        \/ (~driverBefore(s[i], s[j]) /\ j < i)})
  IN  [k \in 1..n |-> s[CHOOSE i \in 1..n : rank(i) = k]]

\* orders.sort((a, b) => ...): the array as the comparator orders it
sortOrders(s) ==
  LET n == Len(s)
      rank(i) == 1 + Cardinality({j \in 1..n :
                        \/ orderBefore(s[j], s[i])
                        \/ (~orderBefore(s[i], s[j]) /\ j < i)})
  IN  [k \in 1..n |-> s[CHOOSE i \in 1..n : rank(i) = k]]

\* a slip: the availability filter left out
findAvailableDrivers_NoFilter(store, n) ==
  Take(sortDrivers(store), n)

\* Driver.find({ isAvailable: true }).limit(n).sort(...)
findAvailableDrivers(store, n) ==
  LET avail == SelectSeqIdx(store, {i \in 1..Len(store) : store[i].isAvailable})
  IN  Take(sortDrivers(avail), n)

\* Order.find({ status: 'pending' })
findPendingOrders(store) ==
  SelectSeqIdx(store, {i \in 1..Len(store) : store[i].status = "pending"})

\* routes.forEach(route => routeMap.set(route.routeId, route))
buildRouteMap(routes) ==
  [id \in {routes[i].routeId : i \in 1..Len(routes)} |->
     LET last == CHOOSE i \in 1..Len(routes) :
                   /\ routes[i].routeId = id
                   /\ \A j \in (i + 1)..Len(routes) : routes[j].routeId # id
     IN  routes[last]]

hasRoute(map, id) == id \in DOMAIN map

(***************************************************************************)
(* optimizeOrderAssignment: the scan for the best driver of one order.     *)
(***************************************************************************)
newAssignment(driver) ==
  [driverId |-> driver.id, assignedOrders |-> <<>>, totalHours |-> 0,
   isFatigued |-> isFatigued(driver)]

\* a slip: the order's own time left out of the capacity test
hasCapacity_IgnoresOrderTime(assignment, orderTime, maxHoursPerDriver) ==
  ~(assignment.totalHours > maxHoursPerDriver * 60)

\* the capacity test: NOT (totalHours + orderTime/60 > maxHoursPerDriver)
hasCapacity(assignment, orderTime, maxHoursPerDriver) ==
  ~(assignment.totalHours + orderTime > maxHoursPerDriver * 60)

RECURSIVE scanDrivers_LaterWins(_, _, _, _, _, _, _)
\* a slip: >= for >, a later driver of equal score takes the order
scanDrivers_LaterWins(asg, order, route, maxHoursPerDriver, i, bestDriverIndex, bestScore) ==
  IF i > Len(asg) THEN bestDriverIndex
  ELSE LET orderTime == calculateOrderTime(route, asg[i].isFatigued)
           score == calculateAssignmentScore(asg[i], order, route)
       IN  IF hasCapacity(asg[i], orderTime, maxHoursPerDriver) /\ score >= bestScore
             THEN scanDrivers_LaterWins(asg, order, route, maxHoursPerDriver,
                                        i + 1, i, score)
             ELSE scanDrivers_LaterWins(asg, order, route, maxHoursPerDriver,
                                        i + 1, bestDriverIndex, bestScore)

RECURSIVE scanDrivers(_, _, _, _, _, _, _)
\* the loop over the drivers from driver i on: bestDriverIndex at its end
scanDrivers(asg, order, route, maxHoursPerDriver, i, bestDriverIndex, bestScore) ==
  IF i > Len(asg) THEN bestDriverIndex
  ELSE LET orderTime == calculateOrderTime(route, asg[i].isFatigued)
           score == calculateAssignmentScore(asg[i], order, route)
       IN  IF ~hasCapacity(asg[i], orderTime, maxHoursPerDriver)
             THEN scanDrivers(asg, order, route, maxHoursPerDriver, i + 1,
                              bestDriverIndex, bestScore)
           ELSE IF score > bestScore
             THEN scanDrivers(asg, order, route, maxHoursPerDriver, i + 1, i, score)
           ELSE scanDrivers(asg, order, route, maxHoursPerDriver, i + 1,
                            bestDriverIndex, bestScore)

\* bestDriverIndex after the scan; -1 when no driver was taken
findBestDriver(asg, order, route, maxHoursPerDriver) ==
  scanDrivers(asg, order, route, maxHoursPerDriver, 1, -1, -1 * 30)

\* a slip: the order's routeId is not copied on the entry, which then names
\* no route
committedOrder_RouteIdLost(order, route, fatigued) ==
  [orderId |-> order.orderId, valueRs |-> order.valueRs, routeId |-> 0,
   deliveryTime |-> order.deliveryTime,
   estimatedTime |-> calculateOrderTime(route, fatigued),
   isLate |-> isOrderLate(order, route, fatigued)]

\* the entry pushed on assignedOrders
committedOrder(order, route, fatigued) ==
  [orderId |-> order.orderId, valueRs |-> order.valueRs, routeId |-> order.routeId,
   deliveryTime |-> order.deliveryTime,
   estimatedTime |-> calculateOrderTime(route, fatigued),
   isLate |-> isOrderLate(order, route, fatigued)]

\* a slip: the flag follows the hours of the run, set once they pass 8
commitOrder_RefreshFatigue(asg, idx, order, route) ==
  LET a == asg[idx]
      orderTime == calculateOrderTime(route, a.isFatigued)
  IN  [asg EXCEPT ![idx] =
         [a EXCEPT !.assignedOrders =
                      Append(@, committedOrder(order, route, a.isFatigued)),
                   !.totalHours = @ + orderTime,
                   !.isFatigued = @ \/ a.totalHours + orderTime > FATIGUE_HOURS * 60]]

\* a slip: = for +=, totalHours holds the time of the last order only
commitOrder_HoursOverwritten(asg, idx, order, route) ==
  LET a == asg[idx]
      orderTime == calculateOrderTime(route, a.isFatigued)
  IN  [asg EXCEPT ![idx] =
         [a EXCEPT !.assignedOrders =
                      Append(@, committedOrder(order, route, a.isFatigued)),
                   !.totalHours = orderTime]]

\* the commit: the order pushed on assignedOrders, its time added to totalHours
commitOrder(asg, idx, order, route) ==
  LET a == asg[idx]
      orderTime == calculateOrderTime(route, a.isFatigued)
  IN  [asg EXCEPT ![idx] =
         [a EXCEPT !.assignedOrders =
                      Append(@, committedOrder(order, route, a.isFatigued)),
                   !.totalHours = @ + orderTime]]

\* a slip: no Assignment for a driver that cannot take an order at full speed
initialAssignments_OnlyRested(ds) ==
  LET rested == SelectSeqIdx(ds, {i \in 1..Len(ds) : ~isFatigued(ds[i])})
  IN  [i \in 1..Len(rested) |-> newAssignment(rested[i])]

\* const assignments = drivers.map(driver => ({ ... }))
initialAssignments(ds) == [i \in 1..Len(ds) |-> newAssignment(ds[i])]

\* a slip: an order without a route planned on some route of the lookup
planStep_DefaultRoute(asg, order, routes, maxHoursPerDriver) ==
  LET route == IF hasRoute(routes, order.routeId) THEN routes[order.routeId]
               ELSE routes[CHOOSE id \in DOMAIN routes : TRUE]
      best == findBestDriver(asg, order, route, maxHoursPerDriver)
  IN  IF best # -1 THEN commitOrder(asg, best, order, route) ELSE asg

\* one turn of the loop over sortedOrders: the plan after the turn
planStep(asg, order, routes, maxHoursPerDriver) ==
  IF ~hasRoute(routes, order.routeId) THEN asg
  ELSE LET route == routes[order.routeId]
           best == findBestDriver(asg, order, route, maxHoursPerDriver)
       IN  IF best # -1 THEN commitOrder(asg, best, order, route) ELSE asg

RECURSIVE planUpTo(_, _, _, _, _)
\* the plan after the first n turns of the loop over sortedOrders
planUpTo(asg, sortedOrders, n, routes, maxHoursPerDriver) ==
  IF n = 0 THEN asg
  ELSE planStep(planUpTo(asg, sortedOrders, n - 1, routes, maxHoursPerDriver),
                sortedOrders[n], routes, maxHoursPerDriver)

\* the loop over sortedOrders, from the plan asg on
planOrders(asg, sortedOrders, routes, maxHoursPerDriver) ==
  planUpTo(asg, sortedOrders, Len(sortedOrders), routes, maxHoursPerDriver)

\* the whole call (startTime is converted to minutes and not used)
optimizeOrderAssignment(ds, os, routes, startTime, maxHoursPerDriver) ==
  planOrders(initialAssignments(ds), sortOrders(os), routes, maxHoursPerDriver)

(***************************************************************************)
(* calculateKPIs: the body of the loop for one committed order, and the    *)
(* returned record.                                                        *)
(***************************************************************************)
RECURSIVE ordersFrom(_, _)
\* the committed orders of the assignments i, i + 1, ... in order
ordersFrom(asg, i) ==
  IF i > Len(asg) THEN <<>>
  ELSE asg[i].assignedOrders \o ordersFrom(asg, i + 1)

\* the committed orders in the order the two nested loops visit them
flattenOrders(asg) == ordersFrom(asg, 1)

\* totalProfit, the counters and the fuel cost per traffic level at 0
initialKPIs ==
  [totalProfit |-> 0, totalFuelCost |-> 0, onTimeDeliveries |-> 0,
   lateDeliveries |-> 0, totalDeliveries |-> 0,
   lowTraffic |-> 0, mediumTraffic |-> 0, highTraffic |-> 0]

\* orderProfit before the floor, in tenths
orderProfit(order, route) ==
  LET p0 == order.valueRs * BONUS_RATE_DIV
      p1 == IF order.isLate
              THEN p0 - LATE_DELIVERY_PENALTY * BONUS_RATE_DIV
              ELSE IF order.valueRs > 1000
                     THEN p0 + (order.valueRs * BONUS_RATE_DIV) \div BONUS_RATE_DIV
                     ELSE p0
  IN  p1 - calculateFuelCost(route)

\* a slip: each order's profit rounded before it is added
profitContribution_RoundedPerOrder(order, route) ==
  Max0(RoundDiv(orderProfit(order, route), BONUS_RATE_DIV) * BONUS_RATE_DIV)

\* what is added to totalProfit: Math.max(0, orderProfit)
profitContribution(order, route) == Max0(orderProfit(order, route))

\* a slip: onTimeDeliveries counted inside the high-value test
accumulateOrder_OnTimeInsideBonus(acc, order, routes) ==
  IF ~hasRoute(routes, order.routeId) THEN acc
  ELSE
    LET route == routes[order.routeId]
        fuelCost == calculateFuelCost(route)
    IN  [acc EXCEPT
           !.totalDeliveries = @ + 1,
           !.lateDeliveries = IF order.isLate THEN @ + 1 ELSE @,
           !.onTimeDeliveries =
              IF ~order.isLate /\ order.valueRs > 1000 THEN @ + 1 ELSE @,
           !.totalFuelCost = @ + fuelCost,
           !.lowTraffic = IF route.trafficLevel = "Low" THEN @ + fuelCost ELSE @,
           !.mediumTraffic = IF route.trafficLevel = "Medium" THEN @ + fuelCost ELSE @,
           !.highTraffic = IF route.trafficLevel = "High" THEN @ + fuelCost ELSE @,
           !.totalProfit = @ + profitContribution(order, route)]

\* a slip: a Medium route's fuel cost added to the lowTraffic bucket
accumulateOrder_WrongBucket(acc, order, routes) ==
  IF ~hasRoute(routes, order.routeId) THEN acc
  ELSE
    LET route == routes[order.routeId]
        fuelCost == calculateFuelCost(route)
    IN  [acc EXCEPT
           !.totalDeliveries = @ + 1,
           !.lateDeliveries = IF order.isLate THEN @ + 1 ELSE @,
           !.onTimeDeliveries = IF order.isLate THEN @ ELSE @ + 1,
           !.totalFuelCost = @ + fuelCost,
           !.lowTraffic = IF route.trafficLevel # "High" THEN @ + fuelCost ELSE @,
           !.highTraffic = IF route.trafficLevel = "High" THEN @ + fuelCost ELSE @,
           !.totalProfit = @ + profitContribution(order, route)]

\* the accumulators after the loop body ran for one committed order
accumulateOrder(acc, order, routes) ==
  IF ~hasRoute(routes, order.routeId) THEN acc
  ELSE
    LET route == routes[order.routeId]
        fuelCost == calculateFuelCost(route)
    IN  [acc EXCEPT
           !.totalDeliveries = @ + 1,
           !.lateDeliveries = IF order.isLate THEN @ + 1 ELSE @,
           !.onTimeDeliveries = IF order.isLate THEN @ ELSE @ + 1,
           !.totalFuelCost = @ + fuelCost,
           !.lowTraffic = IF route.trafficLevel = "Low" THEN @ + fuelCost ELSE @,
           !.mediumTraffic = IF route.trafficLevel = "Medium" THEN @ + fuelCost ELSE @,
           !.highTraffic = IF route.trafficLevel = "High" THEN @ + fuelCost ELSE @,
           !.totalProfit = @ + profitContribution(order, route)]

\* a slip: the late orders in the numerator
efficiencyScoreOf_LateRatio(acc) ==
  IF acc.totalDeliveries > 0
    THEN RoundDiv(acc.lateDeliveries * 100 * 100, acc.totalDeliveries)
    ELSE 0

RECURSIVE accumulateUpTo(_, _, _, _)
\* the accumulators after the loops ran over the first n committed orders
accumulateUpTo(acc, cs, n, routes) ==
  IF n = 0 THEN acc
  ELSE accumulateOrder(accumulateUpTo(acc, cs, n - 1, routes), cs[n], routes)

\* the accumulators after the loops ran over the committed orders cs
accumulateAll(acc, cs, routes) == accumulateUpTo(acc, cs, Len(cs), routes)

\* efficiencyScore, in hundredths: Math.round(e * 100) / 100
efficiencyScoreOf(acc) ==
  IF acc.totalDeliveries > 0
    THEN RoundDiv(acc.onTimeDeliveries * 100 * 100, acc.totalDeliveries)
    ELSE 0

\* the record calculateKPIs returns (money rounded to whole rupees)
kpiResult(acc) ==
  [totalProfit |-> RoundDiv(acc.totalProfit, BONUS_RATE_DIV),
   efficiencyScore |-> efficiencyScoreOf(acc),
   onTimeDeliveries |-> acc.onTimeDeliveries,
   lateDeliveries |-> acc.lateDeliveries,
   totalDeliveries |-> acc.totalDeliveries,
   totalFuelCost |-> RoundDiv(acc.totalFuelCost, BONUS_RATE_DIV),
   fuelCostBreakdown |->
     [lowTraffic |-> RoundDiv(acc.lowTraffic, BONUS_RATE_DIV),
      mediumTraffic |-> RoundDiv(acc.mediumTraffic, BONUS_RATE_DIV),
      highTraffic |-> RoundDiv(acc.highTraffic, BONUS_RATE_DIV)]]

\* the whole call
calculateKPIs(asg, routes) ==
  kpiResult(accumulateAll(initialKPIs, flattenOrders(asg), routes))

(***************************************************************************)
(* State.                                                                  *)
(*   driverStore, orderStore, routeStore, simulations: the collections     *)
(*   body: the request body of POST /run                                   *)
(*   pc: where the handler is                                              *)
(*   drivers, orders, routeMap: what runSimulation fetched                 *)
(*   assignments, planIdx: the plan and the position of the planning loop  *)
(*   kpi, kpiIdx: the accumulators and the position of the KPI loop        *)
(*   results: what calculateKPIs returned (a sequence of at most one)      *)
(*   response: what the handler answered                                   *)
(*   uPc, uRoute, uFatigued, uRet: a direct call of one engine method, as  *)
(*   the unit tests make it                                                *)
(*   uMinutes, uTime: the minutes and the "HH:MM" string of a direct call  *)
(*   of timeToMinutes or minutesToTime                                     *)
(*   rawBody: the request body as it arrives, before the validation        *)
(*   middleware (numbers in tenths)                                        *)
(*   twin: a second POST /run request in flight at the same time           *)
(***************************************************************************)
VARIABLES driverStore, orderStore, routeStore, simulations, body, pc,
          drivers, orders, routeMap, assignments, planIdx, kpi, kpiIdx,
          results, response, uPc, uRoute, uFatigued, uRet, uMinutes, uTime,
          rawBody, twin

vars == <<driverStore, orderStore, routeStore, simulations, body, pc,
          drivers, orders, routeMap, assignments, planIdx, kpi, kpiIdx,
          results, response, uPc, uRoute, uFatigued, uRet, uMinutes, uTime,
          rawBody, twin>>

storeVars == <<driverStore, orderStore, routeStore>>
unitVars == <<uPc, uRoute, uFatigued, uRet, uMinutes, uTime>>
sideVars == <<rawBody, twin>>
runVars == <<simulations, body, pc, drivers, orders, routeMap, assignments,
             planIdx, kpi, kpiIdx, results, response>>

(***************************************************************************)
(* The inputs the model draws from.                                        *)
(***************************************************************************)
T0900 == <<"0", "9", ":", "0", "0">>
T1730 == <<"1", "7", ":", "3", "0">>

\* a seeded driver: the last day of pastWeekHours decides fatigueLevel
Driver(i, available, lastDay) ==
  [id |-> i, isAvailable |-> available,
   pastWeekHours |-> <<0, 0, 0, 0, 0, 0, lastDay>>,
   currentDayHours |-> 0,
   fatigueLevel |-> IF lastDay > FATIGUE_HOURS THEN 30 ELSE 0]

DriverKinds == {<<TRUE, 8>>, <<TRUE, 9>>, <<FALSE, 8>>}

DriverStores ==
  {[i \in 1..NumDrivers |-> Driver(i, k[i][1], k[i][2])] :
     k \in [1..NumDrivers -> DriverKinds]}

Route(id, km10, level, base) ==
  [routeId |-> id, distanceKm |-> km10, trafficLevel |-> level, baseTimeMin |-> base]

\* distanceKm in tenths of a km
RouteStores ==
  {<<Route(1, 100, "Low", 60), Route(2, 25, "Medium", 17), Route(3, 25, "High", 20)>>,
   <<Route(1, 5, "Low", 50), Route(2, 150, "Medium", 60), Route(3, 100, "High", 40)>>}

\* <<valueRs, routeId, deliveryTime, status>>; no route has the id 9
OrderKinds ==
  {<<1500, 1, T1730, "pending">>,
   <<1500, 2, T0900, "pending">>, <<20, 2, T1730, "pending">>,
   <<20, 3, T0900, "pending">>, <<20, 9, T0900, "pending">>,
   <<1500, 1, T0900, "delivered">>}

Order(i, k) ==
  [orderId |-> i, valueRs |-> k[1], routeId |-> k[2], deliveryTime |-> k[3],
   status |-> k[4]]

OrderStores ==
  UNION {{[i \in 1..n |-> Order(i, k[i])] : k \in [1..n -> OrderKinds]} :
           n \in 0..MaxOrders}

\* <<startTime, maxHoursPerDriver>>
ShiftKinds == {<<T0900, 1>>, <<T1730, 2>>}

Bodies ==
  {[numberOfDrivers |-> n, startTime |-> k[1], maxHoursPerDriver |-> k[2]] :
     n \in 1..NumDrivers, k \in ShiftKinds}

noResponse == [status |-> 0, error |-> "", message |-> <<>>, results |-> <<>>]

\* a validated body as it arrived
rawOf(b) ==
  [numberOfDrivers |-> b.numberOfDrivers * 10, startTime |-> b.startTime,
   maxHoursPerDriver |-> b.maxHoursPerDriver * 10]

\* the state of a request that has not arrived
twinOff ==
  [pc |-> "off",
   body |-> [numberOfDrivers |-> 1, startTime |-> T0900, maxHoursPerDriver |-> 1],
   drivers |-> <<>>, assignments |-> <<>>, results |-> <<>>,
   response |-> noResponse]

Init ==
  /\ driverStore \in DriverStores
  /\ orderStore \in OrderStores
  /\ routeStore \in RouteStores
  /\ body \in Bodies
  /\ simulations = <<>>
  /\ pc = "received"
  /\ drivers = <<>>
  /\ orders = <<>>
  /\ routeMap = <<>>
  /\ assignments = <<>>
  /\ planIdx = 0
  /\ kpi = initialKPIs
  /\ kpiIdx = 0
  /\ results = <<>>
  /\ response = noResponse
  /\ uPc = "off"
  /\ uRoute = Route(0, 0, "Low", 0)
  /\ uFatigued = FALSE
  /\ uRet = 0
  /\ uMinutes = 0
  /\ uTime = <<>>
  /\ rawBody = rawOf(body)
  /\ twin = twinOff

(***************************************************************************)
(* POST /run, up to the first await: the handler's own checks, then        *)
(* runSimulation's fetch of the drivers and its test of their number.  A   *)
(* throw is caught by the handler, which answers 500 with the message.     *)
(***************************************************************************)
insufficientMessage(found, requested) ==
  [available |-> found, requested |-> requested]

FetchDrivers ==
  /\ pc = "received"
  /\ IF body.numberOfDrivers <= 0
       THEN /\ response' = [noResponse EXCEPT !.status = 400,
                              !.error = "Number of drivers must be positive"]
            /\ pc' = "done"
            /\ UNCHANGED drivers
     ELSE IF body.maxHoursPerDriver <= 0 \/ body.maxHoursPerDriver > 24
       THEN /\ response' = [noResponse EXCEPT !.status = 400,
                              !.error = "Max hours per driver must be between 1 and 24"]
            /\ pc' = "done"
            /\ UNCHANGED drivers
     ELSE LET found == findAvailableDrivers(driverStore, body.numberOfDrivers)
          IN  /\ drivers' = found
              /\ IF Len(found) < body.numberOfDrivers
                   THEN /\ response' =
                             [noResponse EXCEPT !.status = 500,
                                !.error = "Simulation failed",
                                !.message = <<insufficientMessage(Len(found),
                                                body.numberOfDrivers)>>]
                        /\ pc' = "done"
                   ELSE /\ pc' = "fetchOrders"
                        /\ UNCHANGED response
  /\ UNCHANGED <<storeVars, unitVars, sideVars, simulations, body, orders, routeMap,
                 assignments, planIdx, kpi, kpiIdx, results>>

(***************************************************************************)
(* runSimulation after the second await: the orders and routes arrive, the *)
(* route lookup is built, optimizeOrderAssignment makes one Assignment per *)
(* driver and sorts the orders (in place).                                 *)
(***************************************************************************)
FetchOrdersAndRoutes ==
  /\ pc = "fetchOrders"
  /\ routeMap' = buildRouteMap(routeStore)
  /\ orders' = sortOrders(findPendingOrders(orderStore))
  /\ assignments' = initialAssignments(drivers)
  /\ planIdx' = 1
  /\ pc' = "planning"
  /\ UNCHANGED <<storeVars, unitVars, sideVars, simulations, body, drivers, kpi, kpiIdx,
                 results, response>>

(***************************************************************************)
(* One turn of the planning loop: the order at planIdx.                    *)
(***************************************************************************)
PlanOrder ==
  /\ pc = "planning"
  /\ planIdx <= Len(orders)
  /\ assignments' = planStep(assignments, orders[planIdx], routeMap,
                              body.maxHoursPerDriver)
  /\ planIdx' = planIdx + 1
  /\ UNCHANGED <<storeVars, unitVars, sideVars, simulations, body, pc, drivers, orders,
                 routeMap, kpi, kpiIdx, results, response>>

(***************************************************************************)
(* The planner returns; calculateKPIs starts with its accumulators at 0.   *)
(***************************************************************************)
\* a slip: totalDeliveries starts from the Simulation saved last
StartKPIs_Carried ==
  /\ pc = "planning"
  /\ planIdx > Len(orders)
  /\ kpi' = [initialKPIs EXCEPT
               !.totalDeliveries =
                  IF simulations = <<>> THEN 0
                  ELSE simulations[Len(simulations)].results.totalDeliveries]
  /\ kpiIdx' = 1
  /\ pc' = "kpis"
  /\ UNCHANGED <<storeVars, unitVars, sideVars, simulations, body, drivers, orders,
                 routeMap, assignments, planIdx, results, response>>

\* let totalProfit = 0; ... ; const fuelCostBreakdown = { ... }
StartKPIs ==
  /\ pc = "planning"
  /\ planIdx > Len(orders)
  /\ kpi' = initialKPIs
  /\ kpiIdx' = 1
  /\ pc' = "kpis"
  /\ UNCHANGED <<storeVars, unitVars, sideVars, simulations, body, drivers, orders,
                 routeMap, assignments, planIdx, results, response>>

\* one turn of the (nested) KPI loop
KpiOrder ==
  /\ pc = "kpis"
  /\ kpiIdx <= Len(flattenOrders(assignments))
  /\ kpi' = accumulateOrder(kpi, flattenOrders(assignments)[kpiIdx], routeMap)
  /\ kpiIdx' = kpiIdx + 1
  /\ UNCHANGED <<storeVars, unitVars, sideVars, simulations, body, pc, drivers, orders,
                 routeMap, assignments, planIdx, results, response>>

\* calculateKPIs returns; the handler is about to save the Simulation
KpiReturn ==
  /\ pc = "kpis"
  /\ kpiIdx > Len(flattenOrders(assignments))
  /\ results' = <<kpiResult(kpi)>>
  /\ pc' = "saving"
  /\ UNCHANGED <<storeVars, unitVars, sideVars, simulations, body, drivers, orders,
                 routeMap, assignments, planIdx, kpi, kpiIdx, response>>

(***************************************************************************)
(* await simulation.save(): it succeeds and the handler answers with the   *)
(* KPIs, or it rejects and the handler answers 500.                        *)
(***************************************************************************)
simulationRecord ==
  [inputs |-> body,
   results |-> [r \in {"totalProfit", "efficiencyScore", "onTimeDeliveries",
                       "lateDeliveries", "totalDeliveries", "fuelCostBreakdown"}
                  |-> results[1][r]],
   driverAssignments |->
     [i \in 1..Len(assignments) |->
        [driverId |-> assignments[i].driverId,
         assignedOrders |-> [j \in 1..Len(assignments[i].assignedOrders) |->
                               assignments[i].assignedOrders[j].orderId],
         totalHours |-> assignments[i].totalHours]]]

SaveOk ==
  /\ pc = "saving"
  /\ simulations' = Append(simulations, simulationRecord)
  /\ response' = [noResponse EXCEPT !.status = 200, !.results = results]
  /\ pc' = "done"
  /\ UNCHANGED <<storeVars, unitVars, sideVars, body, drivers, orders, routeMap,
                 assignments, planIdx, kpi, kpiIdx, results>>

\* a slip: the record kept although the save rejected
SaveFail_RecordKept ==
  /\ pc = "saving"
  /\ simulations' = Append(simulations, simulationRecord)
  /\ response' = [noResponse EXCEPT !.status = 500, !.error = "Simulation failed"]
  /\ pc' = "done"
  /\ UNCHANGED <<storeVars, unitVars, sideVars, body, drivers, orders, routeMap,
                 assignments, planIdx, kpi, kpiIdx, results>>

SaveFail ==
  /\ pc = "saving"
  /\ response' = [noResponse EXCEPT !.status = 500, !.error = "Simulation failed"]
  /\ pc' = "done"
  /\ UNCHANGED <<storeVars, unitVars, sideVars, simulations, body, drivers, orders,
                 routeMap, assignments, planIdx, kpi, kpiIdx, results>>

Next ==
  \/ FetchDrivers
  \/ FetchOrdersAndRoutes
  \/ PlanOrder
  \/ StartKPIs
  \/ KpiOrder
  \/ KpiReturn
  \/ SaveOk
  \/ SaveFail

Spec == Init /\ [][Next]_vars

(***************************************************************************)
(* Direct calls of the engine's pure methods, one call per behaviour, as   *)
(* the unit tests make them: the arguments are drawn in InitUnit.          *)
(***************************************************************************)
UnitRoutes ==
  {Route(1, 5 * h, level, base) :
     h \in 0..MaxHalfKm, level \in TrafficLevels, base \in 0..MaxBaseTimeMin}

InitUnit ==
  /\ driverStore = <<>>
  /\ orderStore = <<>>
  /\ routeStore = <<>>
  /\ body = [numberOfDrivers |-> 1, startTime |-> T0900, maxHoursPerDriver |-> 1]
  /\ simulations = <<>>
  /\ pc = "unit"
  /\ drivers = <<>>
  /\ orders = <<>>
  /\ routeMap = <<>>
  /\ assignments = <<>>
  /\ planIdx = 0
  /\ kpi = initialKPIs
  /\ kpiIdx = 0
  /\ results = <<>>
  /\ response = noResponse
  /\ uPc = "ready"
  /\ uRoute \in UnitRoutes
  /\ uFatigued \in BOOLEAN
  /\ uRet = 0
  /\ uMinutes = 0
  /\ uTime = <<>>
  /\ rawBody = rawOf(body)
  /\ twin = twinOff

UnitCalculateFuelCost ==
  /\ uPc = "ready"
  /\ uRet' = calculateFuelCost(uRoute)
  /\ uPc' = "calculateFuelCost"
  /\ UNCHANGED <<storeVars, runVars, sideVars, uRoute, uFatigued,
                 uMinutes, uTime>>

UnitRouteFuelCost ==
  /\ uPc = "ready"
  /\ uRet' = routeCalculateFuelCost(uRoute)
  /\ uPc' = "Route.calculateFuelCost"
  /\ UNCHANGED <<storeVars, runVars, sideVars, uRoute, uFatigued,
                 uMinutes, uTime>>

UnitCalculateOrderTime ==
  /\ uPc = "ready"
  /\ uRet' = calculateOrderTime(uRoute, uFatigued)
  /\ uPc' = "calculateOrderTime"
  /\ UNCHANGED <<storeVars, runVars, sideVars, uRoute, uFatigued,
                 uMinutes, uTime>>

NextUnit ==
  \/ UnitCalculateFuelCost
  \/ UnitRouteFuelCost
  \/ UnitCalculateOrderTime

SpecUnit == InitUnit /\ [][NextUnit]_vars

(***************************************************************************)
(* Direct calls of the scoring of one driver for one order, and of the     *)
(* scan that takes the best driver: the Assignment, the order, the route   *)
(* and the hour bound are drawn in InitScore.  An Assignment's totalHours  *)
(* never exceeds the bound of its run.                                     *)
(***************************************************************************)
ScoreMinutes == {0, 1, 60, 120, 480, 481, 1380, 1439, 1440, 2160, 2400}
ScoreValues == {500, 1000, 1001, 1500}
ScoreHourBounds == {1, 24, 40}

ScoreRoutes ==
  {Route(1, 0, level, base) : level \in TrafficLevels, base \in {0, 60}}

InitScore ==
  /\ driverStore = <<>>
  /\ orderStore = <<>>
  /\ routeStore = <<>>
  /\ \E h \in ScoreHourBounds :
       body = [numberOfDrivers |-> 1, startTime |-> T0900, maxHoursPerDriver |-> h]
  /\ simulations = <<>>
  /\ pc = "unit"
  /\ drivers = <<>>
  /\ \E v \in ScoreValues : orders = <<Order(1, <<v, 1, T0900, "pending">>)>>
  /\ routeMap = <<>>
  /\ \E t \in ScoreMinutes, f \in BOOLEAN :
       /\ t <= body.maxHoursPerDriver * 60
       /\ assignments = <<[driverId |-> 1, assignedOrders |-> <<>>,
                           totalHours |-> t, isFatigued |-> f]>>
  /\ planIdx = 0
  /\ kpi = initialKPIs
  /\ kpiIdx = 0
  /\ results = <<>>
  /\ response = noResponse
  /\ uPc = "ready"
  /\ uRoute \in ScoreRoutes
  /\ uFatigued = assignments[1].isFatigued
  /\ uRet = 0
  /\ uMinutes = 0
  /\ uTime = <<>>
  /\ rawBody = rawOf(body)
  /\ twin = twinOff

UnitCalculateAssignmentScore ==
  /\ uPc = "ready"
  /\ assignments # <<>>
  /\ uRet' = calculateAssignmentScore(assignments[1], orders[1], uRoute)
  /\ uPc' = "calculateAssignmentScore"
  /\ UNCHANGED <<storeVars, runVars, sideVars, uRoute, uFatigued,
                 uMinutes, uTime>>

\* the scan of the drivers for one order: uRet is bestDriverIndex
UnitScanDrivers ==
  /\ uPc = "ready"
  /\ assignments # <<>>
  /\ uRet' = findBestDriver(assignments, orders[1], uRoute, body.maxHoursPerDriver)
  /\ uPc' = "scanDrivers"
  /\ UNCHANGED <<storeVars, runVars, sideVars, uRoute, uFatigued,
                 uMinutes, uTime>>

NextScore ==
  \/ UnitCalculateAssignmentScore
  \/ UnitScanDrivers

SpecScore == InitScore /\ [][NextScore]_vars

(***************************************************************************)
(* Direct calls of the two clock conversions: minutesToTime on a minute of *)
(* the day, timeToMinutes on a time string, zero-padded or with a          *)
(* one-digit hour.                                                         *)
(***************************************************************************)
\* h:mm and hh:mm for every minute of the day
ClockTimes ==
  {toString(h) \o <<":">> \o padStart(toString(m), 2, "0") :
     h \in 0..23, m \in 0..59}
  \cup {padStart(toString(h), 2, "0") \o <<":">> \o padStart(toString(m), 2, "0") :
           h \in 0..9, m \in 0..59}

InitClock ==
  /\ driverStore = <<>>
  /\ orderStore = <<>>
  /\ routeStore = <<>>
  /\ body = [numberOfDrivers |-> 1, startTime |-> T0900, maxHoursPerDriver |-> 1]
  /\ simulations = <<>>
  /\ pc = "unit"
  /\ drivers = <<>>
  /\ orders = <<>>
  /\ routeMap = <<>>
  /\ assignments = <<>>
  /\ planIdx = 0
  /\ kpi = initialKPIs
  /\ kpiIdx = 0
  /\ results = <<>>
  /\ response = noResponse
  /\ uRoute = Route(1, 0, "Low", 0)
  /\ uFatigued = FALSE
  /\ uRet = 0
  /\ \/ uPc = "minutes" /\ uMinutes \in 0..(24 * 60 - 1) /\ uTime = <<>>
     \/ uPc = "time" /\ uTime \in ClockTimes /\ uMinutes = 0
  /\ rawBody = rawOf(body)
  /\ twin = twinOff

UnitMinutesToTime ==
  /\ uPc = "minutes"
  /\ uTime' = minutesToTime(uMinutes)
  /\ uPc' = "minutesToTime"
  /\ UNCHANGED <<storeVars, runVars, sideVars, uRoute, uFatigued, uRet, uMinutes>>

UnitTimeToMinutes ==
  /\ uPc = "time"
  /\ uMinutes' = timeToMinutes(uTime)
  /\ uPc' = "timeToMinutes"
  /\ UNCHANGED <<storeVars, runVars, sideVars, uRoute, uFatigued, uRet, uTime>>

NextClock ==
  \/ UnitMinutesToTime
  \/ UnitTimeToMinutes

SpecClock == InitClock /\ [][NextClock]_vars

(***************************************************************************)
(* The validation middleware in front of the handler: express-validator's  *)
(* isInt and matches on the fields of the body, then                       *)
(* handleValidationErrors, which answers 400 or calls the handler.         *)
(***************************************************************************)
\* the character c is one of the digits lo..hi
inRange(c, lo, hi) == \E d \in lo..hi : Digits[d + 1] = c

\* ([0-1]?[0-9]|2[0-3])
hourMatches(h) ==
  \/ Len(h) = 1 /\ inRange(h[1], 0, 9)
  \/ Len(h) = 2 /\ inRange(h[1], 0, 1) /\ inRange(h[2], 0, 9)
  \/ Len(h) = 2 /\ h[1] = "2" /\ inRange(h[2], 0, 3)

\* /^([0-1]?[0-9]|2[0-3]):[0-5][0-9]$/
matchesStartTime(t) ==
  \E n \in 1..2 :
    /\ Len(t) = n + 3
    /\ hourMatches(SubSeq(t, 1, n))
    /\ t[n + 1] = ":"
    /\ inRange(t[n + 2], 0, 5)
    /\ inRange(t[n + 3], 0, 9)

\* isInt of a number given in tenths
isInt(v) == v % 10 = 0

\* a slip: maxHoursPerDriver taken as any number in (0, 24]
validateSimulation_NumberInRange(raw) ==
  {f \in {"numberOfDrivers", "startTime", "maxHoursPerDriver"} :
     \/ f = "numberOfDrivers"
          /\ ~(isInt(raw.numberOfDrivers) /\ raw.numberOfDrivers >= 1 * 10)
     \/ f = "startTime" /\ ~matchesStartTime(raw.startTime)
     \/ f = "maxHoursPerDriver"
          /\ ~(raw.maxHoursPerDriver > 0 /\ raw.maxHoursPerDriver <= 24 * 10)}

\* the fields of the body that fail their check
validateSimulation(raw) ==
  {f \in {"numberOfDrivers", "startTime", "maxHoursPerDriver"} :
     \/ f = "numberOfDrivers"
          /\ ~(isInt(raw.numberOfDrivers) /\ raw.numberOfDrivers >= 1 * 10)
     \/ f = "startTime" /\ ~matchesStartTime(raw.startTime)
     \/ f = "maxHoursPerDriver"
          /\ ~(/\ isInt(raw.maxHoursPerDriver)
               /\ raw.maxHoursPerDriver >= 1 * 10
               /\ raw.maxHoursPerDriver <= 24 * 10)}

\* handleValidationErrors, and the handler's reading of req.body
ValidateRequest ==
  /\ pc = "arrived"
  /\ IF validateSimulation(rawBody) # {}
       THEN /\ response' = [noResponse EXCEPT !.status = 400,
                              !.error = "Validation failed",
                              !.message = <<validateSimulation(rawBody)>>]
            /\ pc' = "done"
            /\ UNCHANGED body
       ELSE /\ body' = [numberOfDrivers |-> rawBody.numberOfDrivers \div 10,
                        startTime |-> rawBody.startTime,
                        maxHoursPerDriver |-> rawBody.maxHoursPerDriver \div 10]
            /\ pc' = "received"
            /\ UNCHANGED response
  /\ UNCHANGED <<storeVars, unitVars, sideVars, simulations, drivers, orders,
                 routeMap, assignments, planIdx, kpi, kpiIdx, results>>

\* startTime strings of a request
RawTimes ==
  {T0900, T1730,
   <<"9", ":", "0", "0">>, <<"2", "3", ":", "5", "9">>,
   <<"2", "4", ":", "0", "0">>, <<"0", "9", ":", "6", "0">>,
   <<"0", "9", "0", "0">>, <<"0", "9", ":", "0", "0", "0">>}

\* request bodies: the numbers in tenths
RawBodies ==
  {[numberOfDrivers |-> n, startTime |-> t, maxHoursPerDriver |-> h] :
     n \in {-10, 0, 5, 10, 15, 20}, t \in RawTimes,
     h \in {-10, 0, 5, 10, 75, 240, 245, 250}}

\* a request arrives at a store of one driver, one order and three routes
InitRequest ==
  /\ driverStore = <<Driver(1, TRUE, 8)>>
  /\ orderStore = <<Order(1, <<1500, 1, T0900, "pending">>)>>
  /\ routeStore = <<Route(1, 100, "Low", 60), Route(2, 25, "Medium", 17),
                    Route(3, 25, "High", 20)>>
  /\ rawBody \in RawBodies
  /\ body = twinOff.body
  /\ simulations = <<>>
  /\ pc = "arrived"
  /\ drivers = <<>>
  /\ orders = <<>>
  /\ routeMap = <<>>
  /\ assignments = <<>>
  /\ planIdx = 0
  /\ kpi = initialKPIs
  /\ kpiIdx = 0
  /\ results = <<>>
  /\ response = noResponse
  /\ uPc = "off"
  /\ uRoute = Route(0, 0, "Low", 0)
  /\ uFatigued = FALSE
  /\ uRet = 0
  /\ uMinutes = 0
  /\ uTime = <<>>
  /\ twin = twinOff

NextRequest ==
  \/ ValidateRequest
  \/ Next

SpecRequest == InitRequest /\ [][NextRequest]_vars

(***************************************************************************)
(* runSimulation called past the handler's checks, as a caller of the      *)
(* engine that is not the route can call it: any maxHoursPerDriver, the    *)
(* drivers found, then the orders and routes of the store.                 *)
(***************************************************************************)
\* available drivers, each rested or fatigued
PlanDrivers ==
  UNION {[1..n -> {8, 9}] : n \in 1..NumDrivers}

\* <<valueRs, routeId>> of the pending orders, all due at 09:00
PlanOrderKinds == {<<1500, 1>>, <<20, 1>>, <<20, 2>>, <<20, 3>>}

PlanOrderStores ==
  UNION {[1..n -> PlanOrderKinds] : n \in 0..MaxOrders}

\* a route of 1000 minutes in high traffic among the routes
PlanRoutes ==
  <<Route(1, 100, "High", 1000), Route(2, 25, "Low", 60),
    Route(3, 25, "High", 20)>>

InitPlan ==
  /\ \E ds \in PlanDrivers :
       /\ driverStore = [i \in 1..Len(ds) |-> Driver(i, TRUE, ds[i])]
       /\ drivers = sortDrivers(driverStore)
       /\ \E h \in {2, 24, 40} :
            body = [numberOfDrivers |-> Len(ds), startTime |-> T0900,
                    maxHoursPerDriver |-> h]
  /\ \E os \in PlanOrderStores :
       orderStore = [i \in 1..Len(os) |->
                       Order(i, <<os[i][1], os[i][2], T0900, "pending">>)]
  /\ routeStore = PlanRoutes
  /\ rawBody = rawOf(body)
  /\ simulations = <<>>
  /\ pc = "fetchOrders"
  /\ orders = <<>>
  /\ routeMap = <<>>
  /\ assignments = <<>>
  /\ planIdx = 0
  /\ kpi = initialKPIs
  /\ kpiIdx = 0
  /\ results = <<>>
  /\ response = noResponse
  /\ uPc = "off"
  /\ uRoute = Route(0, 0, "Low", 0)
  /\ uFatigued = FALSE
  /\ uRet = 0
  /\ uMinutes = 0
  /\ uTime = <<>>
  /\ twin = twinOff

NextPlan ==
  \/ FetchOrdersAndRoutes
  \/ PlanOrder
  \/ StartKPIs

SpecPlan == InitPlan /\ [][NextPlan]_vars

(***************************************************************************)
(* A second POST /run in flight with the first.  The handler runs from one *)
(* await to the next without interruption: the twin's steps are the fetch  *)
(* of the drivers, the fetch of the orders and routes with the plan and    *)
(* the KPIs computed after it, and the save.  Each request makes its own   *)
(* SimulationEngine; the requests share the collections.                   *)
(***************************************************************************)
TwinFetchDrivers ==
  /\ twin.pc = "received"
  /\ LET found == findAvailableDrivers(driverStore, twin.body.numberOfDrivers)
     IN  IF Len(found) < twin.body.numberOfDrivers
           THEN twin' = [twin EXCEPT
                           !.drivers = found,
                           !.response =
                              [noResponse EXCEPT !.status = 500,
                                 !.error = "Simulation failed",
                                 !.message = <<insufficientMessage(Len(found),
                                                 twin.body.numberOfDrivers)>>],
                           !.pc = "done"]
           ELSE twin' = [twin EXCEPT !.drivers = found, !.pc = "fetchOrders"]
  /\ UNCHANGED <<storeVars, unitVars, runVars, rawBody>>

\* a slip: the plan of the request seeded with the other request's plan
TwinCompute_SharedPlan ==
  /\ twin.pc = "fetchOrders"
  /\ LET routes == buildRouteMap(routeStore)
         seed == IF Len(assignments) = Len(twin.drivers)
                   THEN assignments ELSE initialAssignments(twin.drivers)
         asg == planOrders(seed, sortOrders(findPendingOrders(orderStore)),
                           routes, twin.body.maxHoursPerDriver)
     IN  twin' = [twin EXCEPT !.assignments = asg,
                              !.results = <<calculateKPIs(asg, routes)>>,
                              !.pc = "saving"]
  /\ UNCHANGED <<storeVars, unitVars, runVars, rawBody>>

TwinCompute ==
  /\ twin.pc = "fetchOrders"
  /\ LET routes == buildRouteMap(routeStore)
         asg == optimizeOrderAssignment(twin.drivers, findPendingOrders(orderStore),
                                        routes, twin.body.startTime,
                                        twin.body.maxHoursPerDriver)
     IN  twin' = [twin EXCEPT !.assignments = asg,
                              !.results = <<calculateKPIs(asg, routes)>>,
                              !.pc = "saving"]
  /\ UNCHANGED <<storeVars, unitVars, runVars, rawBody>>

twinRecord ==
  [inputs |-> twin.body,
   results |-> [r \in {"totalProfit", "efficiencyScore", "onTimeDeliveries",
                       "lateDeliveries", "totalDeliveries", "fuelCostBreakdown"}
                  |-> twin.results[1][r]],
   driverAssignments |->
     [i \in 1..Len(twin.assignments) |->
        [driverId |-> twin.assignments[i].driverId,
         assignedOrders |->
           [j \in 1..Len(twin.assignments[i].assignedOrders) |->
              twin.assignments[i].assignedOrders[j].orderId],
         totalHours |-> twin.assignments[i].totalHours]]]

TwinSaveOk ==
  /\ twin.pc = "saving"
  /\ simulations' = Append(simulations, twinRecord)
  /\ twin' = [twin EXCEPT
                !.response = [noResponse EXCEPT !.status = 200,
                                !.results = twin.results],
                !.pc = "done"]
  /\ UNCHANGED <<storeVars, unitVars, rawBody, body, pc, drivers, orders, routeMap,
                 assignments, planIdx, kpi, kpiIdx, results, response>>

TwinSaveFail ==
  /\ twin.pc = "saving"
  /\ twin' = [twin EXCEPT
                !.response = [noResponse EXCEPT !.status = 500,
                                !.error = "Simulation failed"],
                !.pc = "done"]
  /\ UNCHANGED <<storeVars, unitVars, runVars, rawBody>>

\* two drivers, the second rested, fatigued or not available
TwoDriverStores ==
  {<<Driver(1, TRUE, 8), Driver(2, TRUE, 8)>>,
   <<Driver(1, TRUE, 9), Driver(2, TRUE, 8)>>,
   <<Driver(1, TRUE, 8), Driver(2, FALSE, 8)>>}

TwoOrderStores ==
  {<<Order(1, <<20, 2, T1730, "pending">>), Order(2, <<1500, 1, T0900, "pending">>)>>,
   <<Order(1, <<1500, 1, T1730, "pending">>), Order(2, <<1500, 1, T0900, "pending">>)>>,
   <<Order(1, <<20, 9, T0900, "pending">>), Order(2, <<20, 3, T0900, "pending">>)>>}

TwoBodies ==
  {[numberOfDrivers |-> n, startTime |-> k[1], maxHoursPerDriver |-> k[2]] :
     n \in 1..2, k \in ShiftKinds}

InitTwo ==
  /\ driverStore \in TwoDriverStores
  /\ orderStore \in TwoOrderStores
  /\ routeStore \in RouteStores
  /\ body \in TwoBodies
  /\ rawBody = rawOf(body)
  /\ \E b \in TwoBodies : twin = [twinOff EXCEPT !.pc = "received", !.body = b]
  /\ simulations = <<>>
  /\ pc = "received"
  /\ drivers = <<>>
  /\ orders = <<>>
  /\ routeMap = <<>>
  /\ assignments = <<>>
  /\ planIdx = 0
  /\ kpi = initialKPIs
  /\ kpiIdx = 0
  /\ results = <<>>
  /\ response = noResponse
  /\ uPc = "off"
  /\ uRoute = Route(0, 0, "Low", 0)
  /\ uFatigued = FALSE
  /\ uRet = 0
  /\ uMinutes = 0
  /\ uTime = <<>>

NextTwo ==
  \/ Next
  \/ TwinFetchDrivers
  \/ TwinCompute
  \/ TwinSaveOk
  \/ TwinSaveFail

SpecTwo == InitTwo /\ [][NextTwo]_vars

(***************************************************************************)
(* Properties.                                                             *)
(***************************************************************************)
\* the committed orders as <<assignment index, position>> pairs
CommittedAt ==
  {p \in (1..Len(assignments)) \X (1..MaxOrders + 1) :
     p[2] <= Len(assignments[p[1]].assignedOrders)}

committed(p) == assignments[p[1]].assignedOrders[p[2]]

pendingCount ==
  Cardinality({i \in 1..Len(orderStore) : orderStore[i].status = "pending"})

availableCount ==
  Cardinality({i \in 1..Len(driverStore) : driverStore[i].isAvailable})

\* the sum of the function f over the set ps
RECURSIVE SumOver(_, _)
SumOver(ps, f) ==
  IF ps = {} THEN 0
  ELSE LET p == CHOOSE q \in ps : TRUE
       IN  f[p] + SumOver(ps \ {p}, f)

\* the fuel cost of a route as the specification states it, in tenths
statedFuelCost(route) ==
  route.distanceKm * (IF route.trafficLevel = "High" THEN 7 ELSE 5)

\* the multiplier of a traffic level as the specification states it, times 10
statedMultiplier(level) ==
  IF level = "Low" THEN 10 ELSE IF level = "Medium" THEN 12 ELSE 15

\* ceil(baseTimeMin * multiplier * (1.3 if fatigued else 1.0)): one ceiling
statedExecutionTime(route, fatigued) ==
  CeilDiv(route.baseTimeMin * statedMultiplier(route.trafficLevel)
            * (IF fatigued THEN 13 ELSE 10), 100)

\* ceil(ceil(baseTimeMin * multiplier) * (1.3 if fatigued else 1.0))
twoCeilingTime(route, fatigued) ==
  LET expected == CeilDiv(route.baseTimeMin * statedMultiplier(route.trafficLevel), 10)
  IN  IF fatigued THEN CeilDiv(expected * 13, 10) ELSE expected

(* C1: in every state of the planning loop and in the returned plan no     *)
(* Assignment's totalHours exceeds the maxHoursPerDriver of the request.   *)
C1_MaxHours ==
  \A i \in 1..Len(assignments) :
    assignments[i].totalHours <= body.maxHoursPerDriver * 60

\* a driver is exactly full and an order with a route was left out
C1_Witness ==
  /\ pc = "done"
  /\ \E i \in 1..Len(assignments) :
       /\ assignments[i].totalHours = body.maxHoursPerDriver * 60
       /\ assignments[i].assignedOrders # <<>>
  /\ \E k \in 1..Len(orders) :
       /\ hasRoute(routeMap, orders[k].routeId)
       /\ \A p \in CommittedAt : committed(p).orderId # orders[k].orderId

(* C2: with fewer available drivers than requested the run fails with an   *)
(* error carrying the available and the requested count; no plan, no KPIs  *)
(* are computed and no Simulation is saved.                                *)
C2_InsufficientDrivers ==
  availableCount < body.numberOfDrivers =>
    /\ pc \in {"received", "done"}
    /\ assignments = <<>>
    /\ results = <<>>
    /\ simulations = <<>>
    /\ pc = "done" =>
         /\ response.status = 500
         /\ response.message =
              <<[available |-> availableCount, requested |-> body.numberOfDrivers]>>
         /\ response.results = <<>>

C2_Witness ==
  /\ pc = "done"
  /\ availableCount = 1
  /\ body.numberOfDrivers = 2
  /\ response.status = 500

(* C3: onTimeDeliveries + lateDeliveries = totalDeliveries, and            *)
(* totalDeliveries is at most the number of pending orders, during the     *)
(* aggregation and in the returned KPIs.                                   *)
C3_Counts ==
  /\ kpi.onTimeDeliveries + kpi.lateDeliveries = kpi.totalDeliveries
  /\ kpi.totalDeliveries <= pendingCount
  /\ Len(results) = 1 =>
       /\ results[1].onTimeDeliveries + results[1].lateDeliveries
            = results[1].totalDeliveries
       /\ results[1].totalDeliveries <= pendingCount

C3_Witness ==
  /\ Len(results) = 1
  /\ results[1].onTimeDeliveries >= 1
  /\ results[1].lateDeliveries >= 1
  /\ results[1].totalDeliveries = 2

(* C4, as stated: efficiencyScore is in [0,100] and is 0 if and only if    *)
(* totalDeliveries is 0.                                                   *)
C4_Original ==
  Len(results) = 1 =>
    /\ results[1].efficiencyScore \in 0..10000
    /\ results[1].efficiencyScore = 0 <=> results[1].totalDeliveries = 0

(* C4, amended: efficiencyScore is in [0,100]; it is 0 when                *)
(* totalDeliveries is 0, and it is 0 if and only if the on-time share,     *)
(* rounded to 2 decimals, is 0 -- in particular whenever no delivery is    *)
(* on time.                                                                *)
C4_Efficiency ==
  Len(results) = 1 =>
    LET r == results[1]
    IN  /\ r.efficiencyScore \in 0..10000
        /\ r.totalDeliveries = 0 => r.efficiencyScore = 0
        /\ r.efficiencyScore = 0 <=>
             \/ r.totalDeliveries = 0
             \/ 20000 * r.onTimeDeliveries < r.totalDeliveries

\* every delivery of the run is late
C4_Witness ==
  /\ Len(results) = 1
  /\ results[1].totalDeliveries = 2
  /\ results[1].onTimeDeliveries = 0
  /\ results[1].efficiencyScore = 0

(* C5, as stated: the execution time is                                    *)
(* ceil(baseTimeMin * multiplier * (1.3 if fatigued else 1.0)), a single   *)
(* ceiling of the whole product.                                           *)
C5_Original ==
  uPc = "calculateOrderTime" => uRet = statedExecutionTime(uRoute, uFatigued)

(* C5, amended: the execution time is                                      *)
(* ceil(ceil(baseTimeMin * multiplier) * (1.3 if fatigued else 1.0)) with  *)
(* multiplier Low 1.0, Medium 1.2, High 1.5: the ceiling is taken twice.   *)
C5_ExecutionTime ==
  uPc = "calculateOrderTime" => uRet = twoCeilingTime(uRoute, uFatigued)

\* a fatigued call where the two ceilings give more than one would
C5_Witness ==
  /\ uPc = "calculateOrderTime"
  /\ uFatigued
  /\ uRoute.trafficLevel = "Medium"
  /\ uRoute.baseTimeMin = 17
  /\ uRet = 28
  /\ statedExecutionTime(uRoute, uFatigued) = 27

(* C6, as stated: isLate of a committed order is                           *)
(* executionTime(route, fatigued) > baseTimeMin + 10, executionTime being  *)
(* the single-ceiling time of the timing model.                            *)
C6_Original ==
  \A p \in CommittedAt :
    LET route == routeMap[committed(p).routeId]
    IN  committed(p).isLate =
          (statedExecutionTime(route, assignments[p[1]].isFatigued)
             > route.baseTimeMin + 10)

(* C6, amended: isLate of a committed order is (its estimatedTime, the     *)
(* two-ceiling execution time of its route under the driver's fatigue      *)
(* flag) > baseTimeMin + 10; two committed orders with the same route and  *)
(* the same fatigue flag have the same isLate, whatever their              *)
(* deliveryTime, the shift start or the driver's hours so far.             *)
C6_IsLate ==
  \A p \in CommittedAt :
    LET route == routeMap[committed(p).routeId]
    IN  /\ committed(p).estimatedTime
             = twoCeilingTime(route, assignments[p[1]].isFatigued)
        /\ committed(p).isLate
             = (committed(p).estimatedTime > route.baseTimeMin + 10)
        /\ \A q \in CommittedAt :
             (/\ committed(q).routeId = committed(p).routeId
              /\ assignments[q[1]].isFatigued = assignments[p[1]].isFatigued)
             => committed(q).isLate = committed(p).isLate

\* one driver holds two orders of one route with different delivery times
C6_Witness ==
  /\ pc = "done"
  /\ \E p \in CommittedAt, q \in CommittedAt :
       /\ p[1] = q[1]
       /\ p[2] < q[2]
       /\ committed(p).routeId = committed(q).routeId
       /\ committed(p).deliveryTime # committed(q).deliveryTime
       /\ committed(p).isLate

(* C7: totalProfit is the single final rounding of the sum over the        *)
(* committed orders of max(0, valueRs - 50 if late + 10% of valueRs if on  *)
(* time and valueRs > 1000 - fuel cost): floored per order, not rounded    *)
(* per order.                                                              *)
C7_OrderProfit(p) ==
  LET o == committed(p)
  IN  Max0(o.valueRs * 10
           - (IF o.isLate THEN 500 ELSE 0)
           + (IF ~o.isLate /\ o.valueRs > 1000 THEN o.valueRs ELSE 0)
           - statedFuelCost(routeMap[o.routeId]))

C7_TotalProfit ==
  Len(results) = 1 =>
    results[1].totalProfit =
      RoundDiv(SumOver(CommittedAt, [p \in CommittedAt |-> C7_OrderProfit(p)]), 10)

\* one order earns the bonus, another is floored at 0
C7_Witness ==
  /\ Len(results) = 1
  /\ \E p \in CommittedAt :
       ~committed(p).isLate /\ committed(p).valueRs > 1000
  /\ \E p \in CommittedAt :
       /\ C7_OrderProfit(p) = 0
       /\ committed(p).valueRs * 10
            < statedFuelCost(routeMap[committed(p).routeId])
                + (IF committed(p).isLate THEN 500 ELSE 0)

(* C8: the reported total profit is the sum over the delivered orders of   *)
(* (order value + bonuses - penalties - fuel costs), as the README's       *)
(* formula has it (rounded once for the report).                           *)
C8_OrderProfit(p) ==
  LET o == committed(p)
  IN  o.valueRs * 10
      + (IF ~o.isLate /\ o.valueRs > 1000 THEN o.valueRs ELSE 0)
      - (IF o.isLate THEN 500 ELSE 0)
      - statedFuelCost(routeMap[o.routeId])

C8_ReadmeProfit ==
  Len(results) = 1 =>
    results[1].totalProfit =
      RoundDiv(SumOver(CommittedAt, [p \in CommittedAt |-> C8_OrderProfit(p)]), 10)

(* C9: the fuel cost of a route is distanceKm * 5, plus distanceKm * 2     *)
(* when the traffic level is High and nothing for Low or Medium: 10 km Low *)
(* gives 50, 10 km High gives 70, 15 km Medium gives 75.                   *)
C9_FuelCost ==
  uPc \in {"calculateFuelCost", "Route.calculateFuelCost"} =>
    /\ uRet = uRoute.distanceKm * 5
                + (IF uRoute.trafficLevel = "High" THEN uRoute.distanceKm * 2 ELSE 0)
    /\ (uRoute.distanceKm = 100 /\ uRoute.trafficLevel = "Low") => uRet = 500
    /\ (uRoute.distanceKm = 100 /\ uRoute.trafficLevel = "High") => uRet = 700
    /\ (uRoute.distanceKm = 150 /\ uRoute.trafficLevel = "Medium") => uRet = 750

C9_Witness ==
  /\ uPc = "calculateFuelCost"
  /\ uRoute.distanceKm = 150
  /\ uRoute.trafficLevel = "Medium"
  /\ uRet = 750

(* C10: the three reported fuel-cost buckets add up to the reported        *)
(* totalFuelCost within 1 unit, and each bucket is the rounded sum of the  *)
(* fuel costs of the delivered orders of its traffic tier.                 *)
C10_FuelOf(p) == statedFuelCost(routeMap[committed(p).routeId])

C10_Fuel == [p \in CommittedAt |-> C10_FuelOf(p)]

C10_Tier(level) ==
  {p \in CommittedAt : routeMap[committed(p).routeId].trafficLevel = level}

C10_Buckets ==
  Len(results) = 1 =>
    LET r == results[1]
        b == r.fuelCostBreakdown
        d == b.lowTraffic + b.mediumTraffic + b.highTraffic - r.totalFuelCost
    IN  /\ d \in -1..1
        /\ r.totalFuelCost = RoundDiv(SumOver(CommittedAt, C10_Fuel), 10)
        /\ b.lowTraffic = RoundDiv(SumOver(C10_Tier("Low"), C10_Fuel), 10)
        /\ b.mediumTraffic = RoundDiv(SumOver(C10_Tier("Medium"), C10_Fuel), 10)
        /\ b.highTraffic = RoundDiv(SumOver(C10_Tier("High"), C10_Fuel), 10)

\* two buckets each round a half up: the buckets add up to one more
C10_Witness ==
  /\ Len(results) = 1
  /\ results[1].fuelCostBreakdown.lowTraffic
       + results[1].fuelCostBreakdown.mediumTraffic
       + results[1].fuelCostBreakdown.highTraffic
     = results[1].totalFuelCost + 1
  /\ results[1].fuelCostBreakdown.mediumTraffic > 0
  /\ results[1].fuelCostBreakdown.highTraffic > 0

\* the positions in the sorted orders of those whose routeId has no route
C11_Dangling ==
  {k \in 1..Len(orders) : ~hasRoute(routeMap, orders[k].routeId)}

\* the pending orders of the store without those whose routeId has no route
C11_RoutedStore ==
  SelectSeqIdx(orderStore,
    {i \in 1..Len(orderStore) :
       /\ orderStore[i].status = "pending"
       /\ \E j \in 1..Len(routeStore) :
            routeStore[j].routeId = orderStore[i].routeId})

(* C11: an order whose routeId has no entry in the route lookup is never   *)
(* committed to a driver and is not counted in totalDeliveries,            *)
(* onTimeDeliveries or lateDeliveries; it does not make the run fail (a    *)
(* 500 after the orders arrived comes from the save alone); the plan the   *)
(* engine returns is the plan of the same call without that order.         *)
C11_DanglingRoute ==
  /\ \A p \in CommittedAt : hasRoute(routeMap, committed(p).routeId)
  /\ results # <<>> =>
       /\ results[1].totalDeliveries = Cardinality(CommittedAt)
       /\ results[1].onTimeDeliveries + results[1].lateDeliveries
            = Cardinality(CommittedAt)
  /\ pc = "saving" =>
       assignments = optimizeOrderAssignment(drivers, C11_RoutedStore, routeMap,
                       body.startTime, body.maxHoursPerDriver)
  /\ (C11_Dangling # {} /\ response.status = 500) => results # <<>>
  /\ (C11_Dangling # {} /\ pc = "done") => results # <<>>

\* a run answered 200 in which an order without a route came before an
\* order that was committed
C11_Witness ==
  /\ pc = "done"
  /\ response.status = 200
  /\ \E k \in C11_Dangling :
       \E p \in CommittedAt :
         \E j \in (k + 1)..Len(orders) : orders[j].orderId = committed(p).orderId

\* optimizeOrderAssignment was called in this run
C12_Planned == pc \in {"planning", "kpis", "saving"} \/ results # <<>>

(* C12: the plan holds exactly one Assignment per driver passed in, in the *)
(* order of the drivers, the drivers without an order included, with an    *)
(* empty order list and totalHours 0.                                      *)
C12_OnePerDriver ==
  C12_Planned =>
    /\ Len(assignments) = Len(drivers)
    /\ \A i \in 1..Len(drivers) :
         /\ assignments[i].driverId = drivers[i].id
         /\ assignments[i].assignedOrders = <<>> => assignments[i].totalHours = 0

\* a returned plan of two drivers, one with an order and one without
C12_Witness ==
  /\ pc = "done"
  /\ response.status = 200
  /\ Len(drivers) = 2
  /\ \E i, j \in 1..Len(assignments) :
       /\ assignments[i].assignedOrders = <<>>
       /\ assignments[j].assignedOrders # <<>>
       /\ assignments[i].driverId # assignments[j].driverId

(* C13: after optimizeOrderAssignment returned, the orders array passed in *)
(* holds the same elements in the same order as before the call (the       *)
(* pending orders as the query returned them), and the driver and route    *)
(* records are the records of the store.                                   *)
C13_InputsUntouched ==
  C12_Planned =>
    /\ orders = findPendingOrders(orderStore)
    /\ drivers = findAvailableDrivers(driverStore, body.numberOfDrivers)
    /\ routeMap = buildRouteMap(routeStore)

(* C16: a Simulation record exists only when planning and calculateKPIs    *)
(* both ran to their end, and it holds their values; a response with KPI   *)
(* fields is sent only when that record was saved; an error response       *)
(* carries no KPI fields and leaves no Simulation record of the run.       *)
C16_SaveAfterCompute ==
  /\ simulations # <<>> =>
       /\ Len(simulations) = 1
       /\ pc = "done"
       /\ planIdx > Len(orders)
       /\ kpiIdx > Len(flattenOrders(assignments))
       /\ results = <<calculateKPIs(assignments, routeMap)>>
       /\ simulations[1] = simulationRecord
  /\ response.results # <<>> =>
       /\ response.status = 200
       /\ response.results = results
       /\ simulations # <<>>
  /\ response.status \in {400, 500} =>
       /\ response.results = <<>>
       /\ simulations = <<>>
  /\ (pc = "done") = (response.status # 0)

\* the save rejected after the plan and the KPIs were computed
C16_Witness ==
  /\ pc = "done"
  /\ response.status = 500
  /\ results # <<>>
  /\ results[1].totalDeliveries > 0
  /\ simulations = <<>>

\* a turn of the planning loop that committed its order
C18_Step ==
  (pc = "planning" /\ assignments' # assignments) =>
    LET order == orders[planIdx]
        route == routeMap[order.routeId]
        feasible ==
          {i \in 1..Len(assignments) :
             assignments[i].totalHours
               + calculateOrderTime(route, assignments[i].isFatigued)
                 <= body.maxHoursPerDriver * 60}
        score == [i \in feasible |->
                    calculateAssignmentScore(assignments[i], order, route)]
    IN  \E d \in feasible :
          /\ Len(assignments'[d].assignedOrders)
               = Len(assignments[d].assignedOrders) + 1
          /\ assignments'[d].assignedOrders[Len(assignments'[d].assignedOrders)]
               .orderId = order.orderId
          /\ \A i \in 1..Len(assignments) : i # d => assignments'[i] = assignments[i]
          /\ \A i \in feasible :
               /\ score[i] <= score[d]
               /\ score[i] = score[d] => d <= i

(* C18: the driver an order is committed to is feasible for it, no         *)
(* feasible driver has a greater score at that moment, and no feasible     *)
(* driver of the same score has a lower index.                             *)
C18_BestDriver == [][C18_Step]_vars

\* two drivers at full speed with one order each: the first order met two
\* feasible drivers of equal score, the second a better driver at index 2
C18_Witness ==
  /\ pc = "done"
  /\ response.status = 200
  /\ Len(assignments) = 2
  /\ \A i \in 1..2 :
       /\ ~assignments[i].isFatigued
       /\ Len(assignments[i].assignedOrders) = 1
  /\ assignments[1].assignedOrders[1].orderId = orders[1].orderId

\* the minutes of the day of an HH:MM time
C20_Minutes(t) ==
  (DigitValue(t[1]) * 10 + DigitValue(t[2])) * 60
    + DigitValue(t[4]) * 10 + DigitValue(t[5])

\* the position in the sorted orders of the order of this orderId
C20_Position(id) == CHOOSE k \in 1..Len(orders) : orders[k].orderId = id

(* C20: the orders are considered in descending valueRs, orders of equal   *)
(* valueRs in ascending minutes of the day of deliveryTime, orders equal   *)
(* in both in the order of the input; every pending order is considered    *)
(* once; a committed order was considered after every order before it, and *)
(* each driver's list is in that order.                                    *)
C20_ConsiderationOrder ==
  C12_Planned =>
    /\ Len(orders) = pendingCount
    /\ \A i \in 1..Len(orderStore) :
         orderStore[i].status = "pending" =>
           \E k \in 1..Len(orders) : orders[k] = orderStore[i]
    /\ \A k \in 2..Len(orders) :
         LET a == orders[k - 1]
             b == orders[k]
         IN  \/ a.valueRs > b.valueRs
             \/ /\ a.valueRs = b.valueRs
                /\ C20_Minutes(a.deliveryTime) < C20_Minutes(b.deliveryTime)
             \/ /\ a.valueRs = b.valueRs
                /\ C20_Minutes(a.deliveryTime) = C20_Minutes(b.deliveryTime)
                /\ a.orderId < b.orderId
    /\ \A i \in 1..Len(assignments) :
         LET mine == assignments[i].assignedOrders
         IN  /\ \A j \in 1..Len(mine) : C20_Position(mine[j].orderId) < planIdx
             /\ \A j \in 2..Len(mine) :
                  C20_Position(mine[j - 1].orderId) < C20_Position(mine[j].orderId)

\* two committed orders of equal value that the sort exchanged, the one
\* due earlier first
C20_Witness ==
  /\ pc = "done"
  /\ response.status = 200
  /\ Len(orders) = 2
  /\ orders[1].orderId = 2
  /\ orders[1].valueRs = orders[2].valueRs
  /\ \E p, q \in CommittedAt :
       /\ committed(p).orderId = 2
       /\ committed(q).orderId = 1

\* the engine was called for the request
C15_EngineInvoked ==
  pc \in {"fetchOrders", "planning", "kpis", "saving"}
    \/ (pc = "done" /\ response.status # 400)

\* the number of a string of digits, -1 for any other string
C15_Number(s) ==
  IF s # <<>> /\ \A i \in 1..Len(s) : \E d \in 1..10 : Digits[d] = s[i]
    THEN ToNumber(s) ELSE -1

\* the part of the string t before and after its k-th character
C15_Hour(t, k) == C15_Number(SubSeq(t, 1, k - 1))

C15_Minute(t, k) == C15_Number(SubSeq(t, k + 1, Len(t)))

\* HH:MM, hour 00..23, minute 00..59
C15_WellFormed(t) ==
  /\ Len(t) = 5
  /\ t[3] = ":"
  /\ C15_Hour(t, 3) \in 0..23
  /\ C15_Minute(t, 3) \in 0..59

\* H:MM or HH:MM, hour 0..23, minute 00..59
C15_Matches(t) ==
  \E k \in 2..3 :
    /\ Len(t) = k + 2
    /\ t[k] = ":"
    /\ C15_Hour(t, k) \in 0..23
    /\ C15_Minute(t, k) \in 0..59

(* C15 as stated: the engine is invoked if and only if driverCount is a    *)
(* positive integer, shiftStart is a well-formed HH:MM time and            *)
(* maxHoursPerDriver is a number in (0,24]; every other request is         *)
(* answered 400 before the engine runs.                                    *)
C15_Original ==
  pc = "done" =>
    /\ C15_EngineInvoked <=>
         /\ rawBody.numberOfDrivers % 10 = 0 /\ rawBody.numberOfDrivers > 0
         /\ C15_WellFormed(rawBody.startTime)
         /\ rawBody.maxHoursPerDriver > 0 /\ rawBody.maxHoursPerDriver <= 240
    /\ ~C15_EngineInvoked => response.status = 400 /\ drivers = <<>>

(* C15: the engine is invoked if and only if numberOfDrivers is an integer *)
(* of at least 1, startTime is H:MM or HH:MM with an hour of 0 to 23 and a *)
(* minute of 00 to 59, and maxHoursPerDriver is an integer of 1 to 24;     *)
(* every other request is answered 400 before the engine runs.             *)
C15_Validation ==
  pc # "arrived" =>
    /\ C15_EngineInvoked \/ pc = "received" <=>
         /\ rawBody.numberOfDrivers % 10 = 0 /\ rawBody.numberOfDrivers >= 10
         /\ C15_Matches(rawBody.startTime)
         /\ rawBody.maxHoursPerDriver \in {10 * h : h \in 1..24}
    /\ ~(C15_EngineInvoked \/ pc = "received") =>
         /\ pc = "done"
         /\ response.status = 400
         /\ response.results = <<>>
         /\ drivers = <<>>
         /\ assignments = <<>>
         /\ results = <<>>
         /\ simulations = <<>>

\* a request for one driver at 09:00 with 7.5 hours per driver answered 400
C15_Witness ==
  /\ pc = "done"
  /\ response.status = 400
  /\ rawBody.numberOfDrivers = 10
  /\ rawBody.startTime = T0900
  /\ rawBody.maxHoursPerDriver = 75

\* the plan when the k-th of the sorted orders came up
C19_PlanAt(k) ==
  planOrders(initialAssignments(drivers), Take(orders, k - 1), routeMap,
             body.maxHoursPerDriver)

\* the drivers with totalHours + executionTime/60 <= bound for the k-th order
C19_Feasible(k) ==
  LET asg == C19_PlanAt(k)
      route == routeMap[orders[k].routeId]
  IN  {i \in 1..Len(asg) :
         asg[i].totalHours + calculateOrderTime(route, asg[i].isFatigued)
           <= body.maxHoursPerDriver * 60}

C19_Dropped(k) ==
  \A p \in CommittedAt : committed(p).orderId # orders[k].orderId

(* C19: for any maxHoursPerDriver, an order considered whose route exists  *)
(* is left out only when no driver was feasible for it when it came up.    *)
C19_DroppedOnlyIfInfeasible ==
  \A k \in 1..Len(orders) :
    (k < planIdx /\ hasRoute(routeMap, orders[k].routeId) /\ C19_Dropped(k))
      => C19_Feasible(k) = {}

C17_Alone(b) ==
  LET ds == findAvailableDrivers(driverStore, b.numberOfDrivers)
      routes == buildRouteMap(routeStore)
      asg == optimizeOrderAssignment(ds, findPendingOrders(orderStore), routes,
                                     b.startTime, b.maxHoursPerDriver)
  IN  [assignments |-> asg, results |-> <<calculateKPIs(asg, routes)>>]

(* C17: two requests interleaved at their awaits over a store that does    *)
(* not change each produce the Assignments and KPIs they produce alone, in *)
(* the plan in progress, in the response and in the Simulation saved.      *)
C17_Isolation ==
  /\ C12_Planned =>
       assignments = planOrders(initialAssignments(drivers),
                                Take(orders, planIdx - 1), routeMap,
                                body.maxHoursPerDriver)
  /\ results # <<>> =>
       /\ assignments = C17_Alone(body).assignments
       /\ results = C17_Alone(body).results
  /\ twin.results # <<>> =>
       /\ twin.assignments = C17_Alone(twin.body).assignments
       /\ twin.results = C17_Alone(twin.body).results
  /\ response.status = 200 => response.results = C17_Alone(body).results
  /\ twin.response.status = 200 =>
       twin.response.results = C17_Alone(twin.body).results
  /\ \A i \in 1..Len(simulations) :
       \E b \in {body, twin.body} :
         /\ simulations[i].inputs = b
         /\ simulations[i].results.totalProfit
              = C17_Alone(b).results[1].totalProfit
         /\ simulations[i].results.totalDeliveries
              = C17_Alone(b).results[1].totalDeliveries

\* two different requests both answered, the second's record saved first,
\* with different KPIs
C17_Witness ==
  /\ pc = "done"
  /\ twin.pc = "done"
  /\ response.status = 200
  /\ twin.response.status = 200
  /\ twin.body # body
  /\ results # twin.results
  /\ Len(simulations) = 2
  /\ simulations[1].inputs = twin.body

(***************************************************************************)
(* C21: the score of a driver for an order.                                *)
(***************************************************************************)
\* the score as stated, times 30: 100, less 30 for a fatigued driver, less
\* twice the hours so far, plus 20 for a value over 1000, less the traffic
\* penalty
statedScore(fatigued, minutesSoFar, valueRs, level) ==
  30 * (100 - (IF fatigued THEN 30 ELSE 0)
            + (IF valueRs > 1000 THEN 20 ELSE 0)
            - (CASE level = "High" -> 10 [] level = "Medium" -> 5 [] OTHER -> 0))
    - (2 * 30 * minutesSoFar) \div 60

\* C21: for every driver state, order and route, the score equals 100 - (30
\* if the driver is fatigued) - 2 x totalHours so far + (20 if order.valueRs
\* > 1000) - (10 for High, 5 for Medium, 0 for Low traffic)
C21_Score ==
  uPc = "calculateAssignmentScore" =>
    uRet = statedScore(assignments[1].isFatigued, assignments[1].totalHours,
                       orders[1].valueRs, uRoute.trafficLevel)

\* a fatigued driver with hours behind it scored for an order of exactly
\* 1000 on a Medium route: 100 - 30 - 2 x 8 - 5 = 49
C21_Witness ==
  /\ uPc = "calculateAssignmentScore"
  /\ assignments[1].isFatigued
  /\ assignments[1].totalHours = 480
  /\ orders[1].valueRs = 1000
  /\ uRoute.trafficLevel = "Medium"
  /\ uRet = 49 * 30


(***************************************************************************)
(* C22: the fatigued flag of an Assignment.                                *)
(***************************************************************************)
\* C22: each Assignment's fatigued flag is set once, when planning starts,
\* to (the driver's last pastWeekHours entry > 8), and no later step of the
\* run changes it, including steps after which the Assignment's accumulated
\* totalHours exceeds 8
C22_FlagFixed ==
  pc \in {"planning", "kpis"} =>
    /\ Len(assignments) = Len(drivers)
    /\ \A i \in 1..Len(assignments) :
         assignments[i].isFatigued =
           (drivers[i].pastWeekHours[Len(drivers[i].pastWeekHours)] > 8)

\* a driver that did 8 hours on the last day has more than 8 hours of the
\* run behind it and is still not flagged
C22_Witness ==
  /\ pc \in {"planning", "kpis"}
  /\ \E i \in 1..Len(assignments) :
       /\ assignments[i].assignedOrders # <<>>
       /\ assignments[i].totalHours > 8 * 60
       /\ ~assignments[i].isFatigued


(***************************************************************************)
(* C23: the route-absent skip of calculateKPIs.                            *)
(***************************************************************************)
\* the number of committed orders, summed over the Assignments
C23_CommittedCount ==
  SumOver(1..Len(assignments),
          [i \in 1..Len(assignments) |-> Len(assignments[i].assignedOrders)])

\* C23: when KPIs are aggregated over the plan returned by the planner with
\* the same route lookup, the route-absent skip never fires: every order the
\* loop has passed was counted, and totalDeliveries equals the sum over all
\* Assignments of the number of committed orders
C23_SkipNeverFires ==
  /\ pc = "kpis" => kpi.totalDeliveries = kpiIdx - 1
  /\ results # <<>> => results[1].totalDeliveries = C23_CommittedCount

\* KPIs returned for a plan with a committed order, made from a store in
\* which another pending order names no route
C23_Witness ==
  /\ results # <<>>
  /\ results[1].totalDeliveries = 1
  /\ C23_CommittedCount = 1
  /\ \E i \in 1..Len(orderStore) :
       /\ orderStore[i].status = "pending"
       /\ ~hasRoute(routeMap, orderStore[i].routeId)


(***************************************************************************)
(* C24: the bookkeeping of the plan.                                       *)
(***************************************************************************)
\* the estimatedTime of the committed orders of Assignment i, summed
C24_CommittedMinutes(i) ==
  SumOver(1..Len(assignments[i].assignedOrders),
          [j \in 1..Len(assignments[i].assignedOrders) |->
             assignments[i].assignedOrders[j].estimatedTime])

\* C24: in every state of the planning loop and in the returned plan, each
\* pending order appears in at most one Assignment and at most once in it,
\* and each Assignment's totalHours equals the sum of estimatedTime/60 over
\* its committed orders (both sides in minutes here)
C24_Bookkeeping ==
  pc \in {"planning", "kpis"} =>
    /\ \A p, q \in CommittedAt :
         committed(p).orderId = committed(q).orderId => p = q
    /\ \A p \in CommittedAt :
         \E k \in 1..Len(orders) :
           /\ k < planIdx
           /\ orders[k].orderId = committed(p).orderId
    /\ \A i \in 1..Len(assignments) :
         assignments[i].totalHours = C24_CommittedMinutes(i)

\* a returned plan in which a driver holds two orders of different times
C24_Witness ==
  /\ pc = "kpis"
  /\ \E i \in 1..Len(assignments) :
       /\ Len(assignments[i].assignedOrders) = 2
       /\ assignments[i].assignedOrders[1].estimatedTime
            # assignments[i].assignedOrders[2].estimatedTime
       /\ assignments[i].totalHours > assignments[i].assignedOrders[1].estimatedTime


(***************************************************************************)
(* C25: the sentinel of the scan and the scores of feasible drivers.       *)
(***************************************************************************)
\* the drawn driver can take the drawn order within the hour bound
C25_Feasible ==
  assignments[1].totalHours + calculateOrderTime(uRoute, assignments[1].isFatigued)
    <= body.maxHoursPerDriver * 60

\* C25: for every run whose maxHoursPerDriver is at most 24, every score
\* computed for a feasible driver is at least 12, hence strictly greater than
\* the scan's initial best-score sentinel of -1, so the sentinel never hides
\* a feasible driver: the scan takes one
C25_SentinelSafe ==
  (body.maxHoursPerDriver <= 24 /\ C25_Feasible) =>
    /\ uPc = "calculateAssignmentScore" => uRet >= 12 * 30
    /\ uPc = "scanDrivers" => uRet = 1

\* the lowest score: a fatigued driver with 24 hours behind it is taken for
\* a low-value order on a High route of no minutes, under a bound of 24
C25_Witness ==
  /\ uPc = "scanDrivers"
  /\ body.maxHoursPerDriver = 24
  /\ assignments[1].isFatigued
  /\ assignments[1].totalHours = 24 * 60
  /\ uRoute.trafficLevel = "High"
  /\ orders[1].valueRs <= 1000
  /\ C25_Feasible
  /\ calculateAssignmentScore(assignments[1], orders[1], uRoute) = 12 * 30
  /\ uRet = 1


(***************************************************************************)
(* C26: timeToMinutes and minutesToTime on one day.                        *)
(***************************************************************************)
\* t is "HH:MM": two digits, a colon, two digits
C26_ZeroPadded(t) == Len(t) = 5 /\ t[3] = ":"

\* C26: timeToMinutes and minutesToTime are inverse on one day: for every m
\* in 0..1439, timeToMinutes(minutesToTime(m)) = m, and for every zero-padded
\* HH:MM time t from 00:00 to 23:59, minutesToTime(timeToMinutes(t)) = t
C26_RoundTrip ==
  /\ uPc = "minutesToTime" =>
       /\ uMinutes \in 0..1439
       /\ C26_ZeroPadded(uTime)
       /\ timeToMinutes(uTime) = uMinutes
  /\ (uPc = "timeToMinutes" /\ C26_ZeroPadded(uTime)) =>
       /\ uMinutes \in 0..1439
       /\ minutesToTime(uMinutes) = uTime

\* 09:05 converted to 545 minutes, which convert back to 09:05: both parts
\* need their padding
C26_Witness ==
  /\ uPc = "timeToMinutes"
  /\ uTime = <<"0", "9", ":", "0", "5">>
  /\ uMinutes = 545
  /\ minutesToTime(uMinutes) = uTime


====
